---- MODULE Spec2Model ----
(***************************************************************************)
(* Cursor-based pagination of the UniProt MCP server: the cursor codec     *)
(* (pagination.py: encode_cursor / decode_cursor), the page assembler      *)
(* (pagination.py: paginate_results) and the search call that skips to an  *)
(* offset in a lazy record stream and collects one page (server.py:        *)
(* _uniprot_search_impl).                                                  *)
(*                                                                         *)
(* A Python str is a sequence of code points, a Python bytes object a      *)
(* sequence of numbers 0..255.  Optional values are sequences of length    *)
(* 0 (None) or 1.                                                          *)
(***************************************************************************)
EXTENDS Integers, Sequences, FiniteSets, TLC

VARIABLES
    source,    \* the records the external source yields for the query, in order
    pc,        \* position of the call in progress: "idle", "skip", "collect", "assemble"
    call,      \* the operation in progress or last completed, with its arguments
    offset,    \* search call: the offset decoded from the cursor
    skipped,   \* search call: iterations of the skip loop entered so far
    pulled,    \* search call: records pulled from the record iterator so far
    exhausted, \* search call: the record iterator has raised StopIteration
    results,   \* search call: the records collected so far
    ret,       \* outcome of the last completed operation
    session,   \* the caller of a pagination session: cursor held, pages received
    fault,     \* how the source fails: "none", "search" (the request), "stream" (after its records)
    queried    \* requests the call in progress or last completed made to the source

vars == <<source, pc, call, offset, skipped, pulled, exhausted, results, ret, session,
          fault, queried>>

---------------------------------------------------------------------------
\* Bounds of the model.

\* Longest source sequence.
MaxN == 4
\* Largest page size a search call or paginate_results is given, besides the
\* values around the limit of 100.
MaxLimit == 3
\* Largest of the small offsets given to encode_cursor and paginate_results.
MaxOffset == 5
\* Largest total given to paginate_results.
MaxTotal == 6

---------------------------------------------------------------------------
\* Python str and bytes.

None == <<>>
Some(x) == <<x>>

\* The printable ASCII characters, code points 32..126 in order; the
\* backslash (92) and the backtick (96) are written by name.
Ascii ==
    <<" ", "!", "\"", "#", "$", "%", "&", "'", "(", ")", "*", "+", ",", "-", ".", "/",
      "0", "1", "2", "3", "4", "5", "6", "7", "8", "9", ":", ";", "<", "=", ">", "?",
      "@", "A", "B", "C", "D", "E", "F", "G", "H", "I", "J", "K", "L", "M", "N", "O",
      "P", "Q", "R", "S", "T", "U", "V", "W", "X", "Y", "Z", "[", "BACKSLASH", "]", "^", "_",
      "BACKTICK", "a", "b", "c", "d", "e", "f", "g", "h", "i", "j", "k", "l", "m", "n", "o",
      "p", "q", "r", "s", "t", "u", "v", "w", "x", "y", "z", "{", "|", "}", "~">>

OrdTable == [c \in {Ascii[i] : i \in 1..Len(Ascii)} |->
                31 + (CHOOSE i \in 1..Len(Ascii) : Ascii[i] = c)]

\* ord(c) of a printable ASCII character.
Ord(c) == OrdTable[c]

\* The str whose characters are the tuple t of one-character strings.
Lit(t) == [i \in 1..Len(t) |-> Ord(t[i])]

\* s[i:j] of Python, 0-based, i and j within 0..len(s).
Slice(s, i, j) == IF j <= i THEN <<>> ELSE SubSeq(s, i + 1, j)

\* s[i:i+len(p)] == p
HasAt(s, i, p) == /\ i + Len(p) <= Len(s)
                  /\ \A k \in 1..Len(p) : s[i + k] = p[k]

\* p in s, for strs.
Contains(s, p) == \E i \in 0..Len(s) : HasAt(s, i, p)

RECURSIVE Digits(_)
\* str(n) for an int n >= 0.
Digits(n) == IF n < 10 THEN <<Ord("0") + n>>
             ELSE Append(Digits(n \div 10), Ord("0") + (n % 10))

\* str(n) for an int.
IntStr(n) == IF n < 0 THEN <<Ord("-")>> \o Digits(-n) ELSE Digits(n)

\* s.encode("ascii") and s.encode("utf-8") of a str of ASCII characters:
\* UnicodeEncodeError for "ascii" when a code point is above 127.
EncodeAscii(s) ==
    IF \E i \in 1..Len(s) : s[i] > 127
    THEN [ok |-> FALSE, exc |-> "UnicodeEncodeError",
          msg |-> "'ascii' codec can't encode character"]
    ELSE [ok |-> TRUE, bytes |-> s]

RECURSIVE Utf8From(_, _)
\* bytes.decode("utf-8"): one-byte and two-byte sequences; the inputs of the
\* model hold no longer ones.
Utf8From(b, i) ==
    IF i > Len(b) THEN [ok |-> TRUE, str |-> <<>>]
    ELSE IF b[i] < 128
    THEN LET r == Utf8From(b, i + 1)
         IN IF r.ok THEN [ok |-> TRUE, str |-> <<b[i]>> \o r.str] ELSE r
    ELSE IF b[i] >= 194 /\ b[i] <= 223 /\ i < Len(b) /\ b[i + 1] >= 128 /\ b[i + 1] <= 191
    THEN LET r == Utf8From(b, i + 2)
         IN IF r.ok
            THEN [ok |-> TRUE, str |-> <<(b[i] - 192) * 64 + (b[i + 1] - 128)>> \o r.str]
            ELSE r
    ELSE [ok |-> FALSE, exc |-> "UnicodeDecodeError",
          msg |-> "'utf-8' codec can't decode byte"]

DecodeUtf8(b) == Utf8From(b, 1)

---------------------------------------------------------------------------
\* base64.urlsafe_b64encode / base64.urlsafe_b64decode.

\* The URL-safe alphabet: the character of each 6-bit value, from 0.
B64Alphabet == Lit(<<
      "A", "B", "C", "D", "E", "F", "G", "H", "I", "J", "K", "L", "M", "N", "O", "P",
      "Q", "R", "S", "T", "U", "V", "W", "X", "Y", "Z", "a", "b", "c", "d", "e", "f",
      "g", "h", "i", "j", "k", "l", "m", "n", "o", "p", "q", "r", "s", "t", "u", "v",
      "w", "x", "y", "z", "0", "1", "2", "3", "4", "5", "6", "7", "8", "9", "-", "_">>)

B64Char(v) == B64Alphabet[v + 1]

RECURSIVE B64EncodeFrom(_, _)
B64EncodeFrom(b, i) ==
    LET left == Len(b) - i + 1
        pad  == Ord("=")
    IN IF left <= 0 THEN <<>>
       ELSE IF left = 1
       THEN <<B64Char(b[i] \div 4), B64Char((b[i] % 4) * 16), pad, pad>>
       ELSE IF left = 2
       THEN <<B64Char(b[i] \div 4),
              B64Char((b[i] % 4) * 16 + b[i + 1] \div 16),
              B64Char((b[i + 1] % 16) * 4), pad>>
       ELSE <<B64Char(b[i] \div 4),
              B64Char((b[i] % 4) * 16 + b[i + 1] \div 16),
              B64Char((b[i + 1] % 16) * 4 + b[i + 2] \div 64),
              B64Char(b[i + 2] % 64)>> \o B64EncodeFrom(b, i + 3)

\* base64.urlsafe_b64encode(b), as the bytes of its ASCII text.
urlsafe_b64encode(b) == B64EncodeFrom(b, 1)

\* The 6-bit value of a byte of base64 text, 64 for a byte outside the
\* alphabet: urlsafe_b64decode maps "-" and "_" to "+" and "/" and leaves
\* "+" and "/" themselves in place.
B64Value(c) ==
    IF c = Ord("+") THEN 62
    ELSE IF c = Ord("/") THEN 63
    ELSE IF \E v \in 0..63 : B64Alphabet[v + 1] = c
    THEN CHOOSE v \in 0..63 : B64Alphabet[v + 1] = c
    ELSE 64

RECURSIVE A2bFrom(_, _, _, _, _, _)
\* binascii.a2b_base64 without strict mode: bytes outside the alphabet are
\* skipped, a pad sequence that completes a quad ends the input, an
\* incomplete quad at the end is an error.
A2bFrom(a, i, quad_pos, leftchar, pads, out) ==
    IF i > Len(a)
    THEN IF quad_pos = 0 THEN [ok |-> TRUE, bytes |-> out]
         ELSE IF quad_pos = 1
         THEN [ok |-> FALSE, exc |-> "binascii.Error",
               msg |-> "Invalid base64-encoded string: number of data characters cannot be 1 more than a multiple of 4"]
         ELSE [ok |-> FALSE, exc |-> "binascii.Error", msg |-> "Incorrect padding"]
    ELSE IF a[i] = Ord("=")
    THEN IF quad_pos >= 2 /\ quad_pos + pads + 1 >= 4
         THEN [ok |-> TRUE, bytes |-> out]
         ELSE A2bFrom(a, i + 1, quad_pos, leftchar,
                      IF quad_pos >= 2 THEN pads + 1 ELSE pads, out)
    ELSE LET this_ch == B64Value(a[i])
         IN IF this_ch >= 64 THEN A2bFrom(a, i + 1, quad_pos, leftchar, pads, out)
            ELSE IF quad_pos = 0 THEN A2bFrom(a, i + 1, 1, this_ch, 0, out)
            ELSE IF quad_pos = 1
            THEN A2bFrom(a, i + 1, 2, this_ch % 16, 0,
                         Append(out, leftchar * 4 + this_ch \div 16))
            ELSE IF quad_pos = 2
            THEN A2bFrom(a, i + 1, 3, this_ch % 4, 0,
                         Append(out, leftchar * 16 + this_ch \div 4))
            ELSE A2bFrom(a, i + 1, 0, 0, 0, Append(out, leftchar * 64 + this_ch))

\* base64.urlsafe_b64decode(a) of the bytes a.
urlsafe_b64decode(a) == A2bFrom(a, 1, 0, 0, 0, <<>>)

---------------------------------------------------------------------------
\* Python values as json.loads builds them, each tagged with its type.

JInt(n)      == [t |-> "int", n |-> n]
JBool(b)     == [t |-> "bool", b |-> b]
JFloat(repr) == [t |-> "float", repr |-> repr]
JNull        == [t |-> "NoneType"]
JStr(s)      == [t |-> "str", s |-> s]
JList(items) == [t |-> "list", items |-> items]
JDict(d)     == [t |-> "dict", d |-> d]

\* dict(pairs): a later pair of the same key replaces an earlier one.
DictOf(pairs) ==
    [k \in {pairs[i][1] : i \in 1..Len(pairs)} |->
        LET last == CHOOSE i \in 1..Len(pairs) :
                        /\ pairs[i][1] = k
                        /\ \A j \in (i + 1)..Len(pairs) : pairs[j][1] # k
        IN pairs[last][2]]

\* isinstance(v, int): bool is a subclass of int.
IsInstanceInt(v) == v.t \in {"int", "bool"}

\* The number an int (or a bool, used as an int) stands for.
PyInt(v) == IF v.t = "bool" THEN (IF v.b THEN 1 ELSE 0) ELSE v.n

---------------------------------------------------------------------------
\* json.dumps, for the values encode_cursor serialises.

dumps_value(v) ==
    IF v.t = "bool" THEN (IF v.b THEN Lit(<<"t", "r", "u", "e">>)
                                 ELSE Lit(<<"f", "a", "l", "s", "e">>))
    ELSE IntStr(v.n)

\* json.dumps({key: v}) with the default separators (", ", ": ").
dumps(key, v) ==
    Lit(<<"{", "\"">>) \o key \o Lit(<<"\"", ":", " ">>) \o dumps_value(v) \o Lit(<<"}">>)

---------------------------------------------------------------------------
\* json.loads: the scanner of json.decoder / json.scanner.  Positions are
\* 0-based as in Python; a failed scan carries the message of the
\* JSONDecodeError, without its position.

JOk(val, end) == [ok |-> TRUE, val |-> val, end |-> end]
JErr(msg)     == [ok |-> FALSE, exc |-> "JSONDecodeError", msg |-> msg]

\* s[idx], or -1 past the end.
At(s, idx) == IF idx >= 0 /\ idx < Len(s) THEN s[idx + 1] ELSE -1

\* Space, tab, line feed, carriage return.
IsWs(c) == c \in {32, 9, 10, 13}

RECURSIVE SkipWs(_, _)
SkipWs(s, idx) == IF IsWs(At(s, idx)) THEN SkipWs(s, idx + 1) ELSE idx

IsDigit(c) == c >= Ord("0") /\ c <= Ord("9")

RECURSIVE DigitsEnd(_, _)
DigitsEnd(s, idx) == IF IsDigit(At(s, idx)) THEN DigitsEnd(s, idx + 1) ELSE idx

RECURSIVE IntOf(_)
\* int(d) of a str of decimal digits.
IntOf(d) == IF d = <<>> THEN 0
            ELSE IntOf(SubSeq(d, 1, Len(d) - 1)) * 10 + (d[Len(d)] - Ord("0"))

\* The value of a hexadecimal digit, -1 for any other character.
HexVal(c) ==
    IF IsDigit(c) THEN c - Ord("0")
    ELSE IF c >= Ord("a") /\ c <= Ord("f") THEN c - Ord("a") + 10
    ELSE IF c >= Ord("A") /\ c <= Ord("F") THEN c - Ord("A") + 10
    ELSE -1

\* The code point of the four hexadecimal digits at s[idx:idx+4], -1 if
\* they are not four hexadecimal digits.
Hex4(s, idx) ==
    IF \E k \in 0..3 : HexVal(At(s, idx + k)) = -1 THEN -1
    ELSE HexVal(At(s, idx)) * 4096 + HexVal(At(s, idx + 1)) * 256
         + HexVal(At(s, idx + 2)) * 16 + HexVal(At(s, idx + 3))

\* The character a one-letter escape stands for, -1 if it is none.
Unescape(esc) ==
    IF esc \in {Ord("\""), Ord("BACKSLASH"), Ord("/")} THEN esc
    ELSE IF esc = Ord("b") THEN 8
    ELSE IF esc = Ord("f") THEN 12
    ELSE IF esc = Ord("n") THEN 10
    ELSE IF esc = Ord("r") THEN 13
    ELSE IF esc = Ord("t") THEN 9
    ELSE -1

RECURSIVE ScanChunks(_, _, _)

\* The \uXXXX escape at s[end], uni and uni2 the code points of its four
\* digits and of those of a \uXXXX that follows it: a surrogate pair is one
\* character.
ScanUnicode(s, end, acc, uni, uni2) ==
    IF uni = -1 THEN JErr("Invalid uXXXX escape")
    ELSE IF uni >= 55296 /\ uni <= 56319 /\ uni2 >= 56320 /\ uni2 <= 57343
    THEN ScanChunks(s, end + 12, Append(acc, 65536 + (uni - 55296) * 1024 + (uni2 - 56320)))
    ELSE ScanChunks(s, end + 6, Append(acc, uni))

\* The escape at s[end], esc the character after the backslash.
ScanEscape(s, end, acc, esc) ==
    IF esc = -1 THEN JErr("Unterminated string starting at")
    ELSE IF esc = Ord("u")
    THEN ScanUnicode(s, end, acc, Hex4(s, end + 2),
                     IF At(s, end + 6) = Ord("BACKSLASH") /\ At(s, end + 7) = Ord("u")
                     THEN Hex4(s, end + 8) ELSE -1)
    ELSE IF Unescape(esc) = -1 THEN JErr("Invalid escape")
    ELSE ScanChunks(s, end + 2, Append(acc, Unescape(esc)))

\* The rest of a str from s[end], c the character there.
ScanChar(s, end, acc, c) ==
    IF c = -1 THEN JErr("Unterminated string starting at")
    ELSE IF c = Ord("\"") THEN JOk(acc, end + 1)
    ELSE IF c < 32 THEN JErr("Invalid control character at")
    ELSE IF c # Ord("BACKSLASH") THEN ScanChunks(s, end + 1, Append(acc, c))
    ELSE ScanEscape(s, end, acc, At(s, end + 1))

ScanChunks(s, end, acc) == ScanChar(s, end, acc, At(s, end))

\* scanstring(s, end): the str whose opening quote is at s[end - 1].
scanstring(s, end) == ScanChunks(s, end, <<>>)

\* The number at s[idx:], by NUMBER_RE:
\* (-?(?:0|[1-9]\d*))(\.\d+)?([eE][-+]?\d+)?
\* p is where its digits start, intEnd, fracEnd and expEnd where its integer
\* part, fraction and exponent end.
NumberValue(s, idx, p, intEnd, expEnd) ==
    IF intEnd = p THEN [ok |-> FALSE]
    ELSE IF expEnd > intEnd THEN JOk(JFloat(Slice(s, idx, expEnd)), expEnd)
    ELSE JOk(JInt((IF p > idx THEN -1 ELSE 1) * IntOf(Slice(s, p, intEnd))), intEnd)

NumberExp(s, idx, p, intEnd, fracEnd, q) ==
    NumberValue(s, idx, p, intEnd,
                IF At(s, fracEnd) \in {Ord("e"), Ord("E")} /\ IsDigit(At(s, q))
                THEN DigitsEnd(s, q)
                ELSE fracEnd)

NumberFrac(s, idx, p, intEnd, fracEnd) ==
    NumberExp(s, idx, p, intEnd, fracEnd,
              IF At(s, fracEnd + 1) \in {Ord("+"), Ord("-")}
              THEN fracEnd + 2 ELSE fracEnd + 1)

NumberInt(s, idx, p, intEnd) ==
    NumberFrac(s, idx, p, intEnd,
               IF At(s, intEnd) = Ord(".") /\ IsDigit(At(s, intEnd + 1))
               THEN DigitsEnd(s, intEnd + 1)
               ELSE intEnd)

NumberSign(s, idx, p) ==
    NumberInt(s, idx, p,
              IF At(s, p) = Ord("0") THEN p + 1
              ELSE IF IsDigit(At(s, p)) THEN DigitsEnd(s, p)
              ELSE p)

match_number(s, idx) ==
    NumberSign(s, idx, IF At(s, idx) = Ord("-") THEN idx + 1 ELSE idx)

RECURSIVE scan_once(_, _), ObjectLoop(_, _, _), ArrayLoop(_, _, _)

\* JSONObject after a pair's value v: "}" ends the object, "," leads to
\* the next key.
ObjectNext(s, pairs, nxt) ==
    IF At(s, nxt) = Ord("}") THEN JOk(JDict(DictOf(pairs)), nxt + 1)
    ELSE IF At(s, nxt) # Ord(",") THEN JErr("Expecting ',' delimiter")
    ELSE ObjectLoop(s, SkipWs(s, nxt + 1), pairs)

ObjectValue(s, pairs, key, v) ==
    IF ~v.ok THEN v
    ELSE ObjectNext(s, Append(pairs, <<key, v.val>>), SkipWs(s, v.end))

\* JSONObject after a key: the ":" at s[colon] and the value.
ObjectColon(s, pairs, key, colon) ==
    IF At(s, colon) # Ord(":") THEN JErr("Expecting ':' delimiter")
    ELSE ObjectValue(s, pairs, key, scan_once(s, SkipWs(s, colon + 1)))

ObjectKey(s, pairs, k) ==
    IF ~k.ok THEN k
    ELSE ObjectColon(s, pairs, k.val, SkipWs(s, k.end))

\* JSONObject's loop, with idx where a key is expected.
ObjectLoop(s, idx, pairs) ==
    IF At(s, idx) # Ord("\"")
    THEN JErr("Expecting property name enclosed in double quotes")
    ELSE ObjectKey(s, pairs, scanstring(s, idx + 1))

\* The object whose "{" is followed, after whitespace, by s[idx].
ObjectOpen(s, idx) ==
    IF At(s, idx) = Ord("}") THEN JOk(JDict(DictOf(<<>>)), idx + 1)
    ELSE ObjectLoop(s, idx, <<>>)

\* JSONObject(s, end): the object whose "{" is at s[end - 1].
JSONObject(s, end) == ObjectOpen(s, SkipWs(s, end))

\* JSONArray after an item: "]" ends the array, "," leads to the next item.
ArrayNext(s, items, nxt) ==
    IF At(s, nxt) = Ord("]") THEN JOk(JList(items), nxt + 1)
    ELSE IF At(s, nxt) # Ord(",") THEN JErr("Expecting ',' delimiter")
    ELSE ArrayLoop(s, SkipWs(s, nxt + 1), items)

ArrayItem(s, items, v) ==
    IF ~v.ok THEN v
    ELSE ArrayNext(s, Append(items, v.val), SkipWs(s, v.end))

\* JSONArray's loop, with idx where a value is expected.
ArrayLoop(s, idx, items) == ArrayItem(s, items, scan_once(s, idx))

\* The array whose "[" is followed, after whitespace, by s[idx].
ArrayOpen(s, idx) ==
    IF At(s, idx) = Ord("]") THEN JOk(JList(<<>>), idx + 1)
    ELSE ArrayLoop(s, idx, <<>>)

\* JSONArray(s, end): the array whose "[" is at s[end - 1].
JSONArray(s, end) == ArrayOpen(s, SkipWs(s, end))

\* A str value, r the scanned str.
StrValue(r) == IF r.ok THEN JOk(JStr(r.val), r.end) ELSE r

\* The constants and numbers of scan_once, num the match of NUMBER_RE.
ScanAtom(s, idx, num) ==
    IF HasAt(s, idx, Lit(<<"n", "u", "l", "l">>)) THEN JOk(JNull, idx + 4)
    ELSE IF HasAt(s, idx, Lit(<<"t", "r", "u", "e">>)) THEN JOk(JBool(TRUE), idx + 4)
    ELSE IF HasAt(s, idx, Lit(<<"f", "a", "l", "s", "e">>)) THEN JOk(JBool(FALSE), idx + 5)
    ELSE IF num.ok THEN num
    ELSE IF HasAt(s, idx, Lit(<<"N", "a", "N">>))
    THEN JOk(JFloat(Lit(<<"n", "a", "n">>)), idx + 3)
    ELSE IF HasAt(s, idx, Lit(<<"I", "n", "f", "i", "n", "i", "t", "y">>))
    THEN JOk(JFloat(Lit(<<"i", "n", "f">>)), idx + 8)
    ELSE IF HasAt(s, idx, Lit(<<"-", "I", "n", "f", "i", "n", "i", "t", "y">>))
    THEN JOk(JFloat(Lit(<<"-", "i", "n", "f">>)), idx + 9)
    ELSE JErr("Expecting value")

\* The value that starts with nextchar at s[idx].
ScanValue(s, idx, nextchar) ==
    IF nextchar = Ord("\"") THEN StrValue(scanstring(s, idx + 1))
    ELSE IF nextchar = Ord("{") THEN JSONObject(s, idx + 1)
    ELSE IF nextchar = Ord("[") THEN JSONArray(s, idx + 1)
    ELSE ScanAtom(s, idx, match_number(s, idx))

\* scan_once(s, idx): the value that starts at s[idx]; where none starts,
\* the StopIteration that raw_decode turns into "Expecting value".
scan_once(s, idx) == ScanValue(s, idx, At(s, idx))

\* The end of json.loads: nothing but whitespace may follow the value r.
LoadsEnd(s, r) ==
    IF ~r.ok THEN r
    ELSE IF SkipWs(s, r.end) # Len(s) THEN JErr("Extra data")
    ELSE r

\* json.loads(s): one value between optional whitespace, and nothing after.
loads(s) == LoadsEnd(s, scan_once(s, SkipWs(s, 0)))

---------------------------------------------------------------------------
\* pagination.py: the cursor codec.

\* The outcome of a call: a returned value or a raised exception.  msg is
\* the exception's message, as the sequence of its parts.
Return(v)       == [kind |-> "return", value |-> v]
Raise(exc, msg) == [kind |-> "raise", exc |-> exc, msg |-> msg]

\* The exception classes of these outcomes that are ValueError or one of
\* its subclasses.
ValueErrors ==
    {"ValueError", "UnicodeEncodeError", "UnicodeDecodeError", "JSONDecodeError",
     "binascii.Error"}

\* The str "offset".
OffsetKey == Lit(<<"o", "f", "f", "s", "e", "t">>)

\* encode_cursor with the "=" padding dropped from the token.
encode_cursor_unpadded(n) ==
    SelectSeq(urlsafe_b64encode(dumps(OffsetKey, JInt(n))), LAMBDA c : c # Ord("="))

\* encode_cursor(offset) for an int offset.
encode_cursor(n) ==
    LET cursor_data == JInt(n)
        json_bytes  == dumps(OffsetKey, cursor_data)
    IN urlsafe_b64encode(json_bytes)

\* key in v, for a str key: a TypeError when v is not a container.
PyIn(key, v) ==
    IF v.t = "dict" THEN Return(key \in DOMAIN v.d)
    ELSE IF v.t = "list" THEN Return(\E i \in 1..Len(v.items) : v.items[i] = JStr(key))
    ELSE IF v.t = "str" THEN Return(Contains(v.s, key))
    ELSE Raise("TypeError", <<"argument of type is not iterable", v.t>>)

\* v[key], for a str key that is in v: a TypeError when v is a list or a str.
PyGetItem(v, key) ==
    IF v.t = "dict" THEN Return(v.d[key])
    ELSE Raise("TypeError", <<"indices must be integers", v.t>>)

\* The body of decode_cursor's try statement, stage by stage.

\* Lines 41-44: the offset is an int >= 0 (a bool is an int), and returned.
DecodeOffset(item) ==
    IF item.kind = "raise" THEN item
    ELSE IF ~IsInstanceInt(item.value) \/ PyInt(item.value) < 0
    THEN Raise("ValueError", <<"Invalid offset value in cursor">>)
    ELSE Return(item.value)

\* Lines 39-41: the "offset" field of cursor_data, has the outcome of
\* "offset" in cursor_data.
DecodeField(cursor_data, has) ==
    IF has.kind = "raise" THEN has
    ELSE IF ~has.value THEN Raise("ValueError", <<"Cursor missing 'offset' field">>)
    ELSE DecodeOffset(PyGetItem(cursor_data, OffsetKey))

\* Line 38, json.loads, parsed its outcome.
DecodeParsed(parsed) ==
    IF ~parsed.ok THEN Raise(parsed.exc, <<parsed.msg>>)
    ELSE DecodeField(parsed.val, PyIn(OffsetKey, parsed.val))

\* Line 38, json_bytes.decode("utf-8"), text its outcome.
DecodeText(text) ==
    IF ~text.ok THEN Raise(text.exc, <<text.msg>>)
    ELSE DecodeParsed(loads(text.str))

\* Line 37, base64.urlsafe_b64decode, json_bytes its outcome.
DecodeBytes(json_bytes) ==
    IF ~json_bytes.ok THEN Raise(json_bytes.exc, <<json_bytes.msg>>)
    ELSE DecodeText(DecodeUtf8(json_bytes.bytes))

\* Line 37, cursor.encode("ascii"), ascii its outcome.
DecodeAscii(ascii) ==
    IF ~ascii.ok THEN Raise(ascii.exc, <<ascii.msg>>)
    ELSE DecodeBytes(urlsafe_b64decode(ascii.bytes))

decode_cursor_try(cursor) == DecodeAscii(EncodeAscii(cursor))

\* The except clause with the cause left out of the message.
decode_cursor_except_bare(r) ==
    IF r.kind = "raise" /\ r.exc \in {"JSONDecodeError", "UnicodeDecodeError", "binascii.Error"}
    THEN Raise("ValueError", <<"Invalid cursor format">>)
    ELSE r

\* The except clause of decode_cursor: a JSONDecodeError, a
\* UnicodeDecodeError and a binascii.Error become a ValueError; anything
\* else the body raises passes through.
decode_cursor_except(r) ==
    IF r.kind = "raise" /\ r.exc \in {"JSONDecodeError", "UnicodeDecodeError", "binascii.Error"}
    THEN Raise("ValueError", <<"Invalid cursor format">> \o r.msg)
    ELSE r

\* decode_cursor(cursor)
decode_cursor(cursor) == decode_cursor_except(decode_cursor_try(cursor))

---------------------------------------------------------------------------
\* pagination.py: the page assembler.

\* paginate_results with "next_offset <= total_available".
paginate_results_le(page, off, limit, total_available) ==
    LET withTotal == IF total_available # None
                     THEN ("results" :> page) @@ ("total" :> total_available[1])
                     ELSE "results" :> page
    IN IF Len(page) = limit /\ (total_available = None \/ off + limit <= total_available[1])
       THEN withTotal @@ ("nextCursor" :> encode_cursor(off + limit))
       ELSE withTotal

\* paginate_results with the cursor minted for the page's own offset.
paginate_results_same(page, off, limit, total_available) ==
    LET withTotal == IF total_available # None
                     THEN ("results" :> page) @@ ("total" :> total_available[1])
                     ELSE "results" :> page
    IN IF Len(page) = limit /\ (total_available = None \/ off + limit < total_available[1])
       THEN withTotal @@ ("nextCursor" :> encode_cursor(off))
       ELSE withTotal

\* paginate_results with "if total_available:", which drops a total of 0.
paginate_results_truthy(page, off, limit, total_available) ==
    LET withTotal == IF total_available # None /\ total_available[1] # 0
                     THEN ("results" :> page) @@ ("total" :> total_available[1])
                     ELSE "results" :> page
    IN IF Len(page) = limit /\ (total_available = None \/ off + limit < total_available[1])
       THEN withTotal @@ ("nextCursor" :> encode_cursor(off + limit))
       ELSE withTotal

\* paginate_results with "len(results) > limit": a full page gets no cursor.
paginate_results_gt(page, off, limit, total_available) ==
    LET withTotal == IF total_available # None
                     THEN ("results" :> page) @@ ("total" :> total_available[1])
                     ELSE "results" :> page
    IN IF Len(page) > limit /\ (total_available = None \/ off + limit < total_available[1])
       THEN withTotal @@ ("nextCursor" :> encode_cursor(off + limit))
       ELSE withTotal

\* paginate_results(results, offset, limit, total_available): the envelope,
\* a dict with the keys "results", "total" (optional), "nextCursor" (optional).
paginate_results(page, off, limit, total_available) ==
    LET response    == "results" :> page
        withTotal   == IF total_available # None
                       THEN response @@ ("total" :> total_available[1])
                       ELSE response
        next_offset == off + limit
    IN IF Len(page) = limit /\ (total_available = None \/ next_offset < total_available[1])
       THEN withTotal @@ ("nextCursor" :> encode_cursor(next_offset))
       ELSE withTotal

---------------------------------------------------------------------------
\* clients.py and server.py: argument validation and response formatting.

\* The largest page size a search call accepts.
MAX_LIMIT == 100

\* str.lower() of an ASCII str.
Lower(s) == [i \in 1..Len(s) |->
                IF s[i] >= Ord("A") /\ s[i] <= Ord("Z") THEN s[i] + 32 ELSE s[i]]

\* The ASCII characters str.strip() removes.
IsSpace(c) == c \in {9, 10, 11, 12, 13, 28, 29, 30, 31, 32}

RECURSIVE Strip(_)
\* str.strip()
Strip(s) ==
    IF s = <<>> THEN s
    ELSE IF IsSpace(s[1]) THEN Strip(Tail(s))
    ELSE IF IsSpace(s[Len(s)]) THEN Strip(SubSeq(s, 1, Len(s) - 1))
    ELSE s

VALID_DATABASES ==
    {Lit(<<"u", "n", "i", "p", "r", "o", "t", "k", "b">>),
     Lit(<<"u", "n", "i", "p", "a", "r", "c">>),
     Lit(<<"u", "n", "i", "r", "e", "f">>)}

\* validate_database(database): the lower-cased name, or a ValueError.
validate_database(database) ==
    LET db_lower == Lower(database)
    IN IF db_lower \notin VALID_DATABASES
       THEN Raise("ValueError", <<"Invalid database">>)
       ELSE Return(db_lower)

\* _format_response(data, format): the TOON text of data (the encoder is
\* the toon_format library's; its text is kept as the data it renders) or
\* data itself.
format_response(data, format) ==
    IF format = "toon" THEN [toon |-> data] ELSE data

\* The checks of the search call with the limit checked before the query.
SearchChecks_limit_first(db, query, limit, cursor, format) ==
    IF db.kind = "raise" THEN db
    ELSE IF limit < 1 \/ limit > MAX_LIMIT
    THEN Raise("ValueError", <<"Limit must be between 1 and 100">>)
    ELSE IF query = <<>> \/ Strip(query) = <<>>
    THEN Raise("ValueError", <<"Query string cannot be empty">>)
    ELSE IF format \notin {"toon", "json"}
    THEN Raise("ValueError", <<"Format must be 'toon' or 'json'">>)
    ELSE IF cursor # None /\ cursor[1] # <<>> THEN decode_cursor(cursor[1])
    ELSE Return(JInt(0))

\* The checks of the search call with "if not query:" alone, which lets a
\* query of blanks through.
SearchChecks_nostrip(db, query, limit, cursor, format) ==
    IF db.kind = "raise" THEN db
    ELSE IF query = <<>>
    THEN Raise("ValueError", <<"Query string cannot be empty">>)
    ELSE IF limit < 1 \/ limit > MAX_LIMIT
    THEN Raise("ValueError", <<"Limit must be between 1 and 100">>)
    ELSE IF format \notin {"toon", "json"}
    THEN Raise("ValueError", <<"Format must be 'toon' or 'json'">>)
    ELSE IF cursor # None /\ cursor[1] # <<>> THEN decode_cursor(cursor[1])
    ELSE Return(JInt(0))

\* The checks of _uniprot_search_impl before it touches the source, in the
\* order of the code: the first exception raised, or the offset to skip to.
SearchChecks(db, query, limit, cursor, format) ==
    IF db.kind = "raise" THEN db
    ELSE IF query = <<>> \/ Strip(query) = <<>>
    THEN Raise("ValueError", <<"Query string cannot be empty">>)
    ELSE IF limit < 1 \/ limit > MAX_LIMIT
    THEN Raise("ValueError", <<"Limit must be between 1 and 100">>)
    ELSE IF format \notin {"toon", "json"}
    THEN Raise("ValueError", <<"Format must be 'toon' or 'json'">>)
    ELSE IF cursor # None /\ cursor[1] # <<>> THEN decode_cursor(cursor[1])
    ELSE Return(JInt(0))

search_validate(query, database, limit, cursor, format) ==
    SearchChecks(validate_database(database), query, limit, cursor, format)

\* [id_.strip() for id_ in ids if id_ and id_.strip()]
RECURSIVE CleanIds(_)
CleanIds(ids) ==
    IF ids = <<>> THEN <<>>
    ELSE IF Head(ids) # <<>> /\ Strip(Head(ids)) # <<>>
    THEN <<Strip(Head(ids))>> \o CleanIds(Tail(ids))
    ELSE CleanIds(Tail(ids))

\* The checks of _uniprot_fetch_impl before it touches the source, in the
\* order of the code: the first exception raised, or the cleaned IDs.
FetchChecks(db, ids, format, clean_ids) ==
    IF db.kind = "raise" THEN db
    ELSE IF format \notin {"toon", "json"}
    THEN Raise("ValueError", <<"Format must be 'toon' or 'json'">>)
    ELSE IF ids = <<>>
    THEN Raise("ValueError", <<"IDs list cannot be empty">>)
    ELSE IF clean_ids = <<>>
    THEN Raise("ValueError", <<"No valid IDs provided">>)
    ELSE Return(JList(clean_ids))

fetch_validate(ids, database, format) ==
    FetchChecks(validate_database(database), ids, format, CleanIds(ids))

\* The records _uniprot_fetch_impl holds when it leaves its try statement,
\* for n cleaned IDs and a source that yields the records recs and then
\* ends or fails (flt); every exception of the source is caught.  With
\* fields the search is read until n records are held; fetch_one gives one
\* record or none; fetch_many is read to its end.
FetchResults(n, fields, recs, flt) ==
    IF flt = "search" THEN <<>>
    ELSE IF fields # None /\ fields[1] # <<>>
    THEN SubSeq(recs, 1, IF Len(recs) < n THEN Len(recs) ELSE n)
    ELSE IF n = 1
    THEN SubSeq(recs, 1, IF Len(recs) < 1 THEN Len(recs) ELSE 1)
    ELSE recs

\* The fetch envelope.
FetchEnvelope(found, n) ==
    ("results" :> found) @@ ("found" :> Len(found)) @@ ("requested" :> n)

---------------------------------------------------------------------------
\* The inputs the operations are given.

\* A record of the source: opaque to the pagination, told apart by its id.
Record(i) == [id |-> i]

\* The source sequences: N sequential records, N from 0 to MaxN.
Sources == {[i \in 1..n |-> Record(i)] : n \in 0..MaxN}

\* The offsets given to the operations: the small ones, and offsets of two,
\* three and four digits (those of test_encode_decode_roundtrip).
OffsetInputs == (0..MaxOffset) \cup {10, 100, 1000}

\* The cursors the codec mints for these offsets.
MintedCursors == {encode_cursor(n) : n \in OffsetInputs}

\* JSON texts that are not what encode_cursor writes.
OddPayloads ==
    {Lit(<<"5">>),
     Lit(<<"n", "u", "l", "l">>),
     Lit(<<"[", "1", "]">>),
     Lit(<<"[", "\"", "o", "f", "f", "s", "e", "t", "\"", "]">>),
     Lit(<<"\"", "x", "o", "f", "f", "s", "e", "t", "x", "\"">>),
     Lit(<<"\"", "a", "b", "c", "\"">>),
     Lit(<<"{", "}">>),
     Lit(<<"{", "\"", "w", "r", "o", "n", "g", "\"", ":", " ", "\"", "f", "i", "e", "l", "d", "\"", "}">>),
     Lit(<<"{", "\"", "o", "f", "f", "s", "e", "t", "\"", ":", " ", "-", "5", "}">>),
     Lit(<<"{", "\"", "o", "f", "f", "s", "e", "t", "\"", ":", " ", "t", "r", "u", "e", "}">>),
     Lit(<<"{", "\"", "o", "f", "f", "s", "e", "t", "\"", ":", " ", "f", "a", "l", "s", "e", "}">>),
     Lit(<<"{", "\"", "o", "f", "f", "s", "e", "t", "\"", ":", " ", "1", ".", "5", "}">>),
     Lit(<<"{", "\"", "o", "f", "f", "s", "e", "t", "\"", ":", " ", "\"", "3", "\"", "}">>),
     Lit(<<"{", "\"", "o", "f", "f", "s", "e", "t", "\"", ":", " ", "n", "u", "l", "l", "}">>),
     Lit(<<"{", "\"", "o", "f", "f", "s", "e", "t", "\"", ":", " ", "[", "1", "]", "}">>),
     Lit(<<"{", "\"", "o", "f", "f", "s", "e", "t", "\"", ":", "2", "}">>),
     Lit(<<"{", "\"", "o", "f", "f", "s", "e", "t", "\"", ":", " ", "5">>),
     Lit(<<"{", "o", "f", "f", "s", "e", "t", ":", " ", "5", "}">>)}

\* Strings that are no base64 text of a JSON text: the one of
\* test_decode_invalid_cursor_raises, a lone data character, a character
\* outside ASCII, padding left off, a byte that is not UTF-8, the empty str.
RawCursors ==
    {Lit(<<"n", "o", "t", "-", "a", "-", "v", "a", "l", "i", "d", "-",
           "c", "u", "r", "s", "o", "r", "!", "!", "!">>),
     Lit(<<"A">>),
     <<233>>,
     Lit(<<"e", "3", "0">>),
     Lit(<<"/", "w", "=", "=">>),
     <<>>}

CursorInputs ==
    MintedCursors \cup {urlsafe_b64encode(t) : t \in OddPayloads} \cup RawCursors

QueryInputs ==
    {<<>>, Lit(<<" ", " ">>), Lit(<<"g", "e", "n", "e", ":", "B", "R", "C", "A", "1">>)}

DatabaseInputs ==
    {Lit(<<"u", "n", "i", "p", "r", "o", "t", "k", "b">>),
     Lit(<<"U", "n", "i", "R", "e", "f">>),
     Lit(<<"i", "n", "v", "a", "l", "i", "d">>)}

LimitInputs == (0..MaxLimit) \cup {MAX_LIMIT, MAX_LIMIT + 1}

FormatInputs == {"toon", "json", "invalid"}

\* The pages paginate_results is given: up to MaxLimit records, in any order
\* and with repetitions.
PageInputs == UNION {[1..n -> {Record(1), Record(2)}] : n \in 0..MaxLimit}

TotalInputs == {None} \cup {Some(t) : t \in 0..MaxTotal}

\* The ID lists a fetch call is given: none, blanks only, one ID, one with
\* blanks around it, two IDs, two with an empty entry between them.
IdInputs ==
    {<<>>,
     <<<<>>, Lit(<<" ", " ">>)>>,
     <<Lit(<<"P", "1">>)>>,
     <<Lit(<<" ", "P", "1", " ">>)>>,
     <<Lit(<<"P", "1">>), Lit(<<"P", "2">>)>>,
     <<Lit(<<"P", "1">>), <<>>, Lit(<<"P", "2">>)>>}

\* The fields argument: None, an empty list, a list of one field.
FieldInputs ==
    {None, Some(<<>>),
     Some(<<Lit(<<"a", "c", "c", "e", "s", "s", "i", "o", "n">>)>>)}

\* No pagination session: the operations are called on their own.
NoSession == [state |-> "NONE"]

\* The caller of a pagination session at START: a limit and a format fixed
\* for the session, no cursor yet, no call made.
SessionStarts ==
    {[state |-> "START", limit |-> l, format |-> f, cursor |-> None, calls |-> <<>>] :
        l \in 1..MaxLimit, f \in {"toon", "json"}}

\* The query and the database of a session's calls.
SessionQuery == Lit(<<"g", "e", "n", "e", ":", "B", "R", "C", "A", "1">>)

SessionDatabase == Lit(<<"u", "n", "i", "p", "r", "o", "t", "k", "b">>)

---------------------------------------------------------------------------
\* The state machine.

Init ==
    /\ source \in Sources
    /\ pc = "idle"
    /\ call = [op |-> "none"]
    /\ offset = JInt(0)
    /\ skipped = 0
    /\ pulled = 0
    /\ exhausted = FALSE
    /\ results = <<>>
    /\ ret = [kind |-> "none"]
    /\ fault \in {"none", "search", "stream"}
    /\ queried = 0
    /\ session \in (IF fault = "none" THEN {NoSession} \cup SessionStarts ELSE {NoSession})

searchVars == <<offset, skipped, pulled, exhausted, results, queried>>

\* No operation has been called yet: every operation is stateless, so one
\* call from each initial state covers it.
Fresh == pc = "idle" /\ call.op = "none" /\ session.state = "NONE"

\* The codec and the page assembler do not touch the source: their calls
\* are taken from the initial state with the empty source.
Apart == Fresh /\ source = <<>> /\ fault = "none"

\* A call of encode_cursor.
EncodeCursor ==
    /\ Apart
    /\ \E n \in OffsetInputs :
          /\ call' = [op |-> "encode_cursor", offset |-> n]
          /\ ret' = Return(JStr(encode_cursor(n)))
    /\ UNCHANGED <<source, fault, pc, searchVars, session>>

\* A call of decode_cursor.
DecodeCursor ==
    /\ Apart
    /\ \E c \in CursorInputs :
          /\ call' = [op |-> "decode_cursor", cursor |-> c]
          /\ ret' = decode_cursor(c)
    /\ UNCHANGED <<source, fault, pc, searchVars, session>>

\* A call of paginate_results.
PaginateResults ==
    /\ Apart
    /\ \E page \in PageInputs, off \in OffsetInputs, limit \in 1..MaxLimit,
          total \in TotalInputs :
          /\ call' = [op |-> "paginate_results", results |-> page, offset |-> off,
                      limit |-> limit, total_available |-> total]
          /\ ret' = Return(paginate_results(page, off, limit, total))
    /\ UNCHANGED <<source, fault, pc, searchVars, session>>

\* _uniprot_search_impl up to the start of the skip loop: the arguments are
\* validated and the cursor decoded (v the outcome); a failure ends the call,
\* otherwise the source is queried and its record iterator opened.
SearchBegin(query, database, limit, cursor, format, v) ==
    /\ pc = "idle"
    /\ call' = [op |-> "uniprot_search", query |-> query, database |-> database,
                limit |-> limit, cursor |-> cursor, format |-> format]
    /\ skipped' = 0
    /\ pulled' = 0
    /\ exhausted' = FALSE
    /\ results' = <<>>
    /\ IF v.kind = "raise"
       THEN /\ ret' = v
            /\ pc' = "idle"
            /\ offset' = JInt(0)
            /\ queried' = 0
       ELSE /\ offset' = v.value
            /\ queried' = 1
            /\ IF fault = "search"
               THEN /\ ret' = Raise("SourceError", <<>>)
                    /\ pc' = "idle"
               ELSE /\ ret' = [kind |-> "running"]
                    /\ pc' = IF PyInt(v.value) > 0 THEN "skip" ELSE "collect"
    /\ UNCHANGED <<source, fault>>

SearchStart(query, database, limit, cursor, format) ==
    SearchBegin(query, database, limit, cursor, format,
                search_validate(query, database, limit, cursor, format))

\* A search call with any arguments.
uniprot_search ==
    /\ Fresh
    /\ \E query \in QueryInputs, database \in DatabaseInputs, limit \in LimitInputs,
          cursor \in {None} \cup {Some(c) : c \in CursorInputs},
          format \in FormatInputs :
          SearchStart(query, database, limit, cursor, format)
    /\ UNCHANGED session

\* _uniprot_fetch_impl without the try statements: a failure of the source
\* leaves the call.
FetchBegin_propagate(ids, database, fields, format, v) ==
    /\ pc = "idle"
    /\ call' = [op |-> "uniprot_fetch", ids |-> ids, database |-> database,
                fields |-> fields, format |-> format]
    /\ IF v.kind = "raise"
       THEN /\ ret' = v
            /\ queried' = 0
            /\ results' = <<>>
       ELSE /\ queried' = 1
            /\ results' = FetchResults(Len(v.value.items), fields, source, fault)
            /\ ret' = IF fault # "none"
                      THEN Raise("SourceError", <<>>)
                      ELSE Return(format_response(
                               FetchEnvelope(FetchResults(Len(v.value.items), fields, source, fault),
                                             Len(v.value.items)),
                               format))
    /\ UNCHANGED <<source, fault, pc, offset, skipped, pulled, exhausted, session>>

\* _uniprot_fetch_impl: the arguments are validated (v the outcome); a
\* failure ends the call, otherwise the source is asked once and the
\* envelope of what it gave is returned.
FetchBegin(ids, database, fields, format, v) ==
    /\ pc = "idle"
    /\ call' = [op |-> "uniprot_fetch", ids |-> ids, database |-> database,
                fields |-> fields, format |-> format]
    /\ IF v.kind = "raise"
       THEN /\ ret' = v
            /\ queried' = 0
            /\ results' = <<>>
       ELSE /\ queried' = 1
            /\ results' = FetchResults(Len(v.value.items), fields, source, fault)
            /\ ret' = Return(format_response(
                          FetchEnvelope(FetchResults(Len(v.value.items), fields, source, fault),
                                        Len(v.value.items)),
                          format))
    /\ UNCHANGED <<source, fault, pc, offset, skipped, pulled, exhausted, session>>

\* A fetch call with any arguments.
uniprot_fetch ==
    /\ Fresh
    /\ \E ids \in IdInputs, database \in DatabaseInputs, fields \in FieldInputs,
          format \in FormatInputs :
          FetchBegin(ids, database, fields, format, fetch_validate(ids, database, format))

\* The skip loop over range(offset + 1): one record too many is discarded.
SkipNext_extra ==
    /\ pc = "skip"
    /\ pulled < Len(source)
    /\ pulled' = pulled + 1
    /\ skipped' = skipped + 1
    /\ pc' = IF skipped + 1 <= PyInt(offset) THEN "skip" ELSE "collect"
    /\ UNCHANGED <<source, fault, queried, call, offset, exhausted, results, ret, session>>

\* One iteration of the skip loop whose next() yields a record: the record
\* is discarded.
SkipNext ==
    /\ pc = "skip"
    /\ pulled < Len(source)
    /\ pulled' = pulled + 1
    /\ skipped' = skipped + 1
    /\ pc' = IF skipped + 1 < PyInt(offset) THEN "skip" ELSE "collect"
    /\ UNCHANGED <<source, fault, queried, call, offset, exhausted, results, ret, session>>

\* The skip loop without its except clause: the StopIteration leaves the call.
SkipStop_uncaught ==
    /\ pc = "skip"
    /\ pulled >= Len(source)
    /\ fault # "stream"
    /\ exhausted' = TRUE
    /\ skipped' = skipped + 1
    /\ pc' = "idle"
    /\ ret' = Raise("StopIteration", <<>>)
    /\ UNCHANGED <<source, fault, queried, call, offset, pulled, results, session>>

\* One iteration of the skip loop whose next() raises StopIteration: break.
SkipStop ==
    /\ pc = "skip"
    /\ pulled >= Len(source)
    /\ fault # "stream"
    /\ exhausted' = TRUE
    /\ skipped' = skipped + 1
    /\ pc' = "collect"
    /\ UNCHANGED <<source, fault, queried, call, offset, pulled, results, ret, session>>

\* The collection loop with "len(results) > limit".
CollectNext_late ==
    /\ pc = "collect"
    /\ pulled < Len(source)
    /\ pulled' = pulled + 1
    /\ results' = Append(results, source[pulled + 1])
    /\ pc' = IF Len(results) + 1 > call.limit THEN "assemble" ELSE "collect"
    /\ UNCHANGED <<source, fault, queried, call, offset, skipped, exhausted, ret, session>>

\* One iteration of the collection loop: the record is appended, and the
\* loop left once limit records are held.
CollectNext ==
    /\ pc = "collect"
    /\ pulled < Len(source)
    /\ pulled' = pulled + 1
    /\ results' = Append(results, source[pulled + 1])
    /\ pc' = IF Len(results) + 1 >= call.limit THEN "assemble" ELSE "collect"
    /\ UNCHANGED <<source, fault, queried, call, offset, skipped, exhausted, ret, session>>

\* The record iterator is exhausted: the collection loop ends.
CollectStop ==
    /\ pc = "collect"
    /\ pulled >= Len(source)
    /\ fault # "stream"
    /\ exhausted' = TRUE
    /\ pc' = "assemble"
    /\ UNCHANGED <<source, fault, queried, call, offset, skipped, pulled, results, ret, session>>

\* The collection loop with a failure of the source taken for the end of
\* the stream.
SourceFail_swallowed ==
    /\ pc \in {"skip", "collect"}
    /\ pulled >= Len(source)
    /\ fault = "stream"
    /\ exhausted' = TRUE
    /\ pc' = "assemble"
    /\ UNCHANGED <<source, fault, queried, call, offset, skipped, pulled, results, ret, session>>

\* next() on the record iterator raises an exception of the source, in the
\* skip loop (which catches StopIteration only) or in the collection loop:
\* it leaves the call.
SourceFail ==
    /\ pc \in {"skip", "collect"}
    /\ pulled >= Len(source)
    /\ fault = "stream"
    /\ ret' = Raise("SourceError", <<>>)
    /\ pc' = "idle"
    /\ UNCHANGED <<source, fault, queried, call, offset, skipped, pulled, exhausted, results,
                   session>>

\* The return with the number of records seen so far passed as the total.
SearchReturn_total ==
    /\ pc = "assemble"
    /\ ret' = Return(format_response(
                  paginate_results(results, PyInt(offset), call.limit, Some(pulled)),
                  call.format))
    /\ pc' = "idle"
    /\ UNCHANGED <<source, fault, call, searchVars, session>>

\* The return with the page assembled for offset 0 whatever the cursor.
SearchReturn_zero ==
    /\ pc = "assemble"
    /\ ret' = Return(format_response(
                  paginate_results(results, 0, call.limit, None), call.format))
    /\ pc' = "idle"
    /\ UNCHANGED <<source, fault, call, searchVars, session>>

\* The envelope is assembled, formatted and returned.
SearchReturn ==
    /\ pc = "assemble"
    /\ ret' = Return(format_response(
                  paginate_results(results, PyInt(offset), call.limit, None),
                  call.format))
    /\ pc' = "idle"
    /\ UNCHANGED <<source, fault, call, searchVars, session>>

\* The caller of a session calls the search tool: at START without a cursor,
\* afterwards with the nextCursor it received last.
SessionCall ==
    /\ session.state \in {"START", "HAVE_CURSOR"}
    /\ Len(session.calls) <= MaxN + 1
    /\ SearchStart(SessionQuery, SessionDatabase, session.limit, session.cursor,
                   session.format)
    /\ session' = [session EXCEPT !.state = "WAITING"]

\* The caller receives the outcome of its call: an envelope with a
\* nextCursor is stored for the next call, one without ends the session, an
\* exception fails it.
SessionReceive ==
    /\ session.state = "WAITING"
    /\ pc = "idle"
    /\ session' =
          IF ret.kind = "raise"
          THEN [session EXCEPT !.state = "FAILED"]
          ELSE LET env  == IF DOMAIN ret.value = {"toon"} THEN ret.value.toon ELSE ret.value
                   next == IF "nextCursor" \in DOMAIN env THEN Some(env.nextCursor) ELSE None
               IN [session EXCEPT
                     !.state  = IF next = None THEN "TERMINAL" ELSE "HAVE_CURSOR",
                     !.cursor = next,
                     !.calls  = Append(@, [offset |-> PyInt(offset), results |-> env.results,
                                           next |-> next])]
    /\ UNCHANGED <<source, fault, pc, call, searchVars, ret>>

Next ==
    \/ EncodeCursor
    \/ DecodeCursor
    \/ PaginateResults
    \/ uniprot_search
    \/ uniprot_fetch
    \/ SkipNext
    \/ SkipStop
    \/ CollectNext
    \/ CollectStop
    \/ SearchReturn
    \/ SourceFail
    \/ SessionCall
    \/ SessionReceive

Spec == Init /\ [][Next]_vars

\* The steps of a search call in progress.
SearchStep ==
    \/ SkipNext
    \/ SkipStop
    \/ CollectNext
    \/ CollectStop
    \/ SearchReturn
    \/ SourceFail

\* The step SessionCall takes, told by what it does to the session: the
\* steps of Next that satisfy it are those of SessionCall, and it is enabled
\* where SessionCall is.
SessionCalled ==
    /\ session.state \in {"START", "HAVE_CURSOR"}
    /\ session' = [session EXCEPT !.state = "WAITING"]

\* A call in progress runs to its end, and the caller of a session takes
\* what a call returns and calls again while it holds a cursor: nothing in
\* the code waits.
FairSpec ==
    Spec /\ WF_vars(SearchStep) /\ WF_vars(SessionReceive) /\ WF_session(SessionCalled)

---------------------------------------------------------------------------
\* What the claims speak of.

\* The page envelope a search call returned: the dict itself, or the one its
\* TOON text renders.
Envelope(v) == IF DOMAIN v = {"toon"} THEN v.toon ELSE v

Min(a, b) == IF a <= b THEN a ELSE b

\* The case of a malformed cursor, by the stages of decoding: "a" the str is
\* not decodable as base64 text, "b" the bytes are no JSON text, "c" the
\* JSON value is a record without an offset field, "d" the record's offset
\* is a negative integer.
CursorCase(c) ==
    LET ascii  == EncodeAscii(c)
        raw    == urlsafe_b64decode(ascii.bytes)
        text   == DecodeUtf8(raw.bytes)
        parsed == loads(text.str)
    IN IF ~ascii.ok THEN "a"
       ELSE IF ~raw.ok THEN "a"
       ELSE IF ~text.ok THEN "b"
       ELSE IF ~parsed.ok THEN "b"
       ELSE IF parsed.val.t # "dict" THEN "no record"
       ELSE IF OffsetKey \notin DOMAIN parsed.val.d THEN "c"
       ELSE IF parsed.val.d[OffsetKey].t = "int" /\ parsed.val.d[OffsetKey].n < 0 THEN "d"
       ELSE "other"

\* The payload of a cursor whose text decodes to a JSON value.
CursorPayload(c) == loads(DecodeUtf8(urlsafe_b64decode(EncodeAscii(c).bytes).bytes).str).val

\* The case a message tells of; the messages of the four cases are disjoint.
DetailCase(msg) ==
    IF msg = <<"Cursor missing 'offset' field">> THEN "c"
    ELSE IF msg = <<"Invalid offset value in cursor">> THEN "d"
    ELSE IF msg = <<"'ascii' codec can't encode character">> THEN "a"
    ELSE IF Len(msg) = 2 /\ msg[1] = "Invalid cursor format"
    THEN IF msg[2] \in {"Incorrect padding",
                        "Invalid base64-encoded string: number of data characters cannot be 1 more than a multiple of 4"}
         THEN "a"
         ELSE IF msg[2] \in {"'utf-8' codec can't decode byte", "Expecting value", "Extra data",
                             "Expecting property name enclosed in double quotes",
                             "Expecting ':' delimiter", "Expecting ',' delimiter",
                             "Unterminated string starting at", "Invalid control character at",
                             "Invalid escape", "Invalid uXXXX escape"}
         THEN "b"
         ELSE "none"
    ELSE "none"

---------------------------------------------------------------------------
\* C1: Round-trip law.  For every integer n >= 0 given to encode_cursor,
\* the call returns a token, and decode_cursor of that token returns n.
C1_RoundTrip ==
    call.op = "encode_cursor" =>
        /\ ret.kind = "return"
        /\ ret.value.t = "str"
        /\ decode_cursor(ret.value.s) = Return(JInt(call.offset))

\* An offset of several digits has been encoded and decodes to itself.
C1_Witness ==
    /\ call.op = "encode_cursor"
    /\ call.offset = 100
    /\ decode_cursor(ret.value.s) = Return(JInt(100))

\* C2: Malformed-cursor rejection.  decode_cursor raises a ValueError in
\* each of the four cases, the earliest failing stage deciding the case,
\* and the message tells which of the four cases it is.
C2_MalformedRejected ==
    (call.op = "decode_cursor" /\ CursorCase(call.cursor) \in {"a", "b", "c", "d"}) =>
        /\ ret.kind = "raise"
        /\ ret.exc \in ValueErrors
        /\ DetailCase(ret.msg) = CursorCase(call.cursor)

\* A cursor that is base64 text of bytes that are no JSON text was rejected
\* with the detail of case (b).
C2_Witness ==
    /\ call.op = "decode_cursor"
    /\ CursorCase(call.cursor) = "b"
    /\ ret.kind = "raise"
    /\ DetailCase(ret.msg) = "b"

\* C3: For every input string decode_cursor returns an offset or raises a
\* ValueError, also when the token decodes to a JSON value that is not a
\* record (a number, null, a list, a string).
C3_OnlyValueError ==
    call.op = "decode_cursor" =>
        \/ ret.kind = "return"
        \/ ret.kind = "raise" /\ ret.exc \in ValueErrors

\* C4: decode_cursor returns a value only when the payload's offset field is
\* an integer >= 0, and then that integer; for every other offset value
\* (negative, boolean, fractional, string, null, nested) it raises a
\* ValueError.
C4_IntegerOffsetOnly ==
    (call.op = "decode_cursor" /\ CursorCase(call.cursor) \in {"d", "other"}) =>
        LET field == CursorPayload(call.cursor).d[OffsetKey]
        IN IF field.t = "int" /\ field.n >= 0
           THEN ret = Return(JInt(field.n))
           ELSE ret.kind = "raise" /\ ret.exc \in ValueErrors

\* C5: For paginate_results(records, offset, limit, total) with
\* len(records) <= limit and limit >= 1, the envelope has nextCursor if and
\* only if len(records) = limit and (total is absent or offset + limit < total).
C5_NextCursorIff ==
    (call.op = "paginate_results" /\ Len(call.results) <= call.limit /\ call.limit >= 1) =>
        ("nextCursor" \in DOMAIN ret.value
            <=> /\ Len(call.results) = call.limit
                /\ \/ call.total_available = None
                   \/ call.offset + call.limit < call.total_available[1])

\* A full page that ends exactly at the known total has no nextCursor.
C5_Witness ==
    /\ call.op = "paginate_results"
    /\ Len(call.results) = call.limit
    /\ call.total_available = Some(call.offset + call.limit)
    /\ "nextCursor" \notin DOMAIN ret.value

\* C6: Whenever paginate_results emits a nextCursor, decoding that cursor
\* yields offset + limit.
C6_NextCursorDecodes ==
    (call.op = "paginate_results" /\ "nextCursor" \in DOMAIN ret.value) =>
        decode_cursor(ret.value.nextCursor) = Return(JInt(call.offset + call.limit))

\* A nextCursor was emitted for a page at an offset above 0.
C6_Witness ==
    /\ call.op = "paginate_results"
    /\ call.offset > 0
    /\ "nextCursor" \in DOMAIN ret.value
    /\ decode_cursor(ret.value.nextCursor) = Return(JInt(call.offset + call.limit))

\* C7: paginate_results returns the given records unchanged and in order as
\* the envelope's results; the envelope has a total if and only if one was
\* supplied (a total of 0 included), equal to it; its keys are among
\* results, total and nextCursor.
C7_EnvelopeFrame ==
    call.op = "paginate_results" =>
        /\ ret.kind = "return"
        /\ "results" \in DOMAIN ret.value
        /\ ret.value.results = call.results
        /\ "total" \in DOMAIN ret.value <=> call.total_available # None
        /\ "total" \in DOMAIN ret.value => ret.value.total = call.total_available[1]
        /\ DOMAIN ret.value \subseteq {"results", "total", "nextCursor"}

\* A total of 0 was supplied with a page of two different records, and the
\* envelope carries both.
C7_Witness ==
    /\ call.op = "paginate_results"
    /\ call.total_available = Some(0)
    /\ call.results = <<Record(2), Record(1)>>
    /\ ret.value.results = <<Record(2), Record(1)>>
    /\ ret.value.total = 0

\* A search call whose arguments passed validation has returned.
SearchReturned ==
    /\ call.op = "uniprot_search"
    /\ pc = "idle"
    /\ ret.kind = "return"

\* C8: Offset-skip correctness.  A search call over the source s of length
\* N, at the offset its cursor stands for (0 without a cursor) and with a
\* limit in 1..100, returns exactly s[offset] .. s[min(offset + limit, N) - 1]
\* in order, min(limit, max(0, N - offset)) records, and a nextCursor it
\* emits decodes to offset + limit.
C8_OffsetSkip ==
    SearchReturned =>
        LET env == Envelope(ret.value)
            off == PyInt(offset)
            N   == Len(source)
        IN /\ call.limit \in 1..MAX_LIMIT
           /\ off >= 0
           /\ call.cursor = None => off = 0
           /\ \A n \in OffsetInputs : call.cursor = Some(encode_cursor(n)) => off = n
           /\ env.results = SubSeq(source, off + 1, Min(off + call.limit, N))
           /\ Len(env.results) = Min(call.limit, IF N - off > 0 THEN N - off ELSE 0)
           /\ "nextCursor" \in DOMAIN env =>
                 decode_cursor(env.nextCursor) = Return(JInt(off + call.limit))

\* A call at offset 1 with limit 2 over four records returned the second
\* and third record and a nextCursor for offset 3.
C8_Witness ==
    /\ SearchReturned
    /\ Len(source) = 4
    /\ call.cursor = Some(encode_cursor(1))
    /\ call.limit = 2
    /\ Envelope(ret.value).results = <<Record(2), Record(3)>>
    /\ decode_cursor(Envelope(ret.value).nextCursor) = Return(JInt(3))

\* The arguments of the search call in progress or completed are valid.
SearchValid ==
    /\ call.op = "uniprot_search"
    /\ search_validate(call.query, call.database, call.limit, call.cursor,
                       call.format).kind = "return"

\* C9: Early exhaustion is not an error.  A search call with valid
\* arguments whose offset is at or past the end of a source that ends
\* without failing (an empty source included) raises nothing, and returns an envelope with empty
\* results and no nextCursor.
C9_EarlyExhaustion ==
    (SearchValid /\ fault = "none" /\ PyInt(offset) >= Len(source)) =>
        /\ ret.kind # "raise"
        /\ pc = "idle" =>
              /\ ret.kind = "return"
              /\ Envelope(ret.value).results = <<>>
              /\ "nextCursor" \notin DOMAIN Envelope(ret.value)

\* A call at an offset past the end of a non-empty source has returned,
\* after the record iterator raised StopIteration in the skip loop.
C9_Witness ==
    /\ SearchReturned
    /\ Len(source) > 0
    /\ PyInt(offset) > Len(source)
    /\ exhausted
    /\ skipped = Len(source) + 1
    /\ Envelope(ret.value).results = <<>>

\* The pages of a session's calls, concatenated in call order.
RECURSIVE Pages(_)
Pages(calls) ==
    IF calls = <<>> THEN <<>>
    ELSE Pages(SubSeq(calls, 1, Len(calls) - 1)) \o calls[Len(calls)].results

\* What a session has seen so far: no call failed; the first call stood at
\* offset 0 and each later one at the offset the cursor before it decodes
\* to; every cursor received decodes to an offset above that of the call
\* that emitted it; the pages received make up a prefix of the source, all
\* of it once the session is TERMINAL; and there were no more calls than
\* Len(source) \div limit + 1.
SessionSafe ==
    session.state \in {"START", "WAITING", "HAVE_CURSOR", "TERMINAL"} =>
        LET calls == session.calls
            got   == Pages(calls)
        IN /\ \A i \in 1..Len(calls) :
                 /\ calls[i].offset = (IF i = 1 THEN 0
                                       ELSE PyInt(decode_cursor(calls[i - 1].next[1]).value))
                 /\ calls[i].next # None =>
                       /\ decode_cursor(calls[i].next[1]).kind = "return"
                       /\ decode_cursor(calls[i].next[1]).value.t = "int"
                       /\ decode_cursor(calls[i].next[1]).value.n > calls[i].offset
                 /\ calls[i].next = None => (i = Len(calls) /\ session.state = "TERMINAL")
           /\ Len(got) <= Len(source)
           /\ got = SubSeq(source, 1, Len(got))
           /\ session.state = "TERMINAL" => got = source
           /\ Len(calls) <= Len(source) \div session.limit + 1

\* C10: Pagination session.  Against an unchanged finite source and a fixed
\* limit, a caller that starts with no cursor and passes back each
\* nextCursor it receives eventually receives an envelope without one
\* (TERMINAL); every cursor emitted decodes to an offset strictly greater
\* than that of the call that emitted it; and the pages, concatenated in
\* call order, equal the source, each record once.
C10_PaginationSession ==
    /\ [](session.state # "FAILED" /\ SessionSafe)
    /\ (session.state = "START") ~> (session.state = "TERMINAL")

\* A session over four records with limit 2 is TERMINAL after three calls,
\* the last of them returning an empty page at offset 4.
C10_Witness ==
    /\ session.state = "TERMINAL"
    /\ session.limit = 2
    /\ Len(source) = 4
    /\ Len(session.calls) = 3
    /\ session.calls[3].offset = 4
    /\ Pages(session.calls) = source

\* C11: Exact-multiple heuristic.  A session that has ended made
\* Len(source) \div limit + 1 calls; when the source holds N = k * limit
\* records, k >= 1, the page at offset (k - 1) * limit is full and carries a
\* nextCursor that decodes to N, and the call made with it, the last one,
\* returns empty results and no nextCursor.
C11_ExactMultiple ==
    session.state = "TERMINAL" =>
        LET calls == session.calls
            N     == Len(source)
            k     == N \div session.limit
        IN /\ Len(calls) = k + 1
           /\ (k >= 1 /\ N = k * session.limit) =>
                 /\ calls[k].offset = (k - 1) * session.limit
                 /\ Len(calls[k].results) = session.limit
                 /\ calls[k].next # None
                 /\ decode_cursor(calls[k].next[1]) = Return(JInt(N))
                 /\ calls[k + 1].offset = N
                 /\ calls[k + 1].results = <<>>
                 /\ calls[k + 1].next = None

\* A session over three records with limit 3 has ended with its second
\* call, whose page is empty; the first page was full.
C11_Witness ==
    /\ session.state = "TERMINAL"
    /\ session.limit = 3
    /\ Len(source) = 3
    /\ Len(session.calls) = 2
    /\ Len(session.calls[1].results) = 3
    /\ session.calls[2].results = <<>>

\* A str that is empty or holds blanks only.
Blank(str) == \A i \in 1..Len(str) : IsSpace(str[i])

FetchReturned ==
    /\ call.op = "uniprot_fetch"
    /\ ret.kind = "return"

\* The IDs of a list that are neither empty nor blank.
Kept(ids) == SelectSeq(ids, LAMBDA id : ~Blank(id))

\* C13: Fetch counts.  Every envelope a fetch call returns has
\* 0 <= found = len(results) <= requested, requested being the number of
\* IDs that are neither empty nor blank, on each of the three paths and
\* whatever records the source returns.
C13_FetchCounts ==
    FetchReturned =>
        LET env == Envelope(ret.value)
        IN /\ env.requested = Len(Kept(call.ids))
           /\ env.found = Len(env.results)
           /\ 0 <= env.found
           /\ env.found <= env.requested

\* C14: A failure of the source during a search call with valid arguments,
\* at the request, while skipping or while collecting, reaches the caller:
\* the call returns no envelope, ends with the exception of the source, and
\* has asked the source once.
C14_SourceFailurePropagates ==
    /\ (call.op = "uniprot_search") => queried <= 1
    /\ (SearchValid /\ fault = "search") =>
          /\ pc = "idle"
          /\ ret = Raise("SourceError", <<>>)
          /\ queried = 1
          /\ pulled = 0
    /\ (SearchValid /\ fault = "stream" /\ PyInt(offset) + call.limit > Len(source)) =>
          /\ ret.kind # "return"
          /\ queried = 1
          /\ pc = "idle" =>
                /\ ret = Raise("SourceError", <<>>)
                /\ pulled = Len(source)

\* The source failed in the collection loop after one record had been
\* collected: the call ended with the exception and the record was not
\* returned.
C14_Witness ==
    /\ SearchValid
    /\ fault = "stream"
    /\ pc = "idle"
    /\ PyInt(offset) = 3
    /\ Len(source) = 4
    /\ results = <<Record(4)>>
    /\ ret = Raise("SourceError", <<>>)
    /\ queried = 1

\* The arguments of the fetch call are valid.
FetchValid ==
    /\ call.op = "uniprot_fetch"
    /\ fetch_validate(call.ids, call.database, call.format).kind = "return"

\* C15: Best-effort fetch.  A fetch call with valid arguments returns an
\* envelope whatever the source does: requested is the number of IDs kept,
\* results holds the records the source gave before it failed (none when
\* the request itself failed), and found is their number.
C15_BestEffortFetch ==
    FetchValid =>
        /\ ret.kind = "return"
        /\ LET env        == Envelope(ret.value)
               n          == Len(Kept(call.ids))
               N          == Len(source)
               withFields == call.fields # None /\ call.fields[1] # <<>>
           IN /\ env.requested = n
              /\ env.found = Len(env.results)
              /\ env.results = SubSeq(source, 1, env.found)
              /\ fault = "search" => env.found = 0
              /\ fault = "stream" =>
                    env.found = (IF withFields THEN Min(n, N)
                                 ELSE IF n = 1 THEN Min(1, N)
                                 ELSE N)
              /\ (n = 1 /\ N = 0) => env.found = 0

\* Two IDs were asked for without fields, the source gave one record and
\* then failed: the envelope holds that record, found 1, requested 2.
C15_Witness ==
    /\ FetchValid
    /\ fault = "stream"
    /\ call.fields = None
    /\ Len(source) = 1
    /\ ret.kind = "return"
    /\ Envelope(ret.value).results = <<Record(1)>>
    /\ Envelope(ret.value).found = 1
    /\ Envelope(ret.value).requested = 2

\* C16: Bounded consumption of the stream.  In a search call over N
\* records no more than min(N, offset + limit) records are ever pulled, and
\* exactly that many when the call returns; the skip loop is entered at
\* most once after the last record (it stops at the first StopIteration),
\* and the record at position offset + limit is never pulled.
C16_BoundedConsumption ==
    (call.op = "uniprot_search" /\ queried = 1) =>
        LET off == PyInt(offset)
            N   == Len(source)
        IN /\ pulled <= Min(N, off + call.limit)
           /\ pulled = skipped + Len(results) \/ (exhausted /\ pulled = N)
           /\ skipped <= Min(off, N + 1)
           /\ Len(results) <= call.limit
           /\ SearchReturned => pulled = Min(N, off + call.limit)

\* A call at offset 1 with limit 2 over four records has returned having
\* pulled three records: the fourth was left in the stream.
C16_Witness ==
    /\ SearchReturned
    /\ Len(source) = 4
    /\ PyInt(offset) = 1
    /\ call.limit = 2
    /\ pulled = 3
    /\ ~exhausted

\* The error a search call's arguments call for, by the order database,
\* query, limit, format, cursor: the first check that fails, or "none".
SearchRejection(c) ==
    IF Lower(c.database) \notin VALID_DATABASES
    THEN Raise("ValueError", <<"Invalid database">>)
    ELSE IF Blank(c.query)
    THEN Raise("ValueError", <<"Query string cannot be empty">>)
    ELSE IF c.limit < 1 \/ c.limit > 100
    THEN Raise("ValueError", <<"Limit must be between 1 and 100">>)
    ELSE IF c.format \notin {"toon", "json"}
    THEN Raise("ValueError", <<"Format must be 'toon' or 'json'">>)
    ELSE IF c.cursor # None /\ c.cursor[1] # <<>> /\ decode_cursor(c.cursor[1]).kind = "raise"
    THEN decode_cursor(c.cursor[1])
    ELSE [kind |-> "none"]

\* The error a fetch call's arguments call for, by the order database,
\* format, IDs, or "none".
FetchRejection(c) ==
    IF Lower(c.database) \notin VALID_DATABASES
    THEN Raise("ValueError", <<"Invalid database">>)
    ELSE IF c.format \notin {"toon", "json"}
    THEN Raise("ValueError", <<"Format must be 'toon' or 'json'">>)
    ELSE IF c.ids = <<>>
    THEN Raise("ValueError", <<"IDs list cannot be empty">>)
    ELSE IF \A i \in 1..Len(c.ids) : Blank(c.ids[i])
    THEN Raise("ValueError", <<"No valid IDs provided">>)
    ELSE [kind |-> "none"]

\* C17: Validation precedes any source access.  A search call checks
\* database, query, limit, format and cursor in this order, and a fetch
\* call database, format and IDs; the first check that fails decides the
\* error reported, and then the source is not asked and no record pulled.
\* The source is asked only by calls whose checks all passed.
C17_ValidationFirst ==
    /\ (call.op = "uniprot_search" /\ SearchRejection(call).kind = "raise") =>
          /\ pc = "idle"
          /\ ret = SearchRejection(call)
          /\ queried = 0
          /\ pulled = 0
    /\ (call.op = "uniprot_fetch" /\ FetchRejection(call).kind = "raise") =>
          /\ ret = FetchRejection(call)
          /\ queried = 0
          /\ results = <<>>
    /\ (call.op = "uniprot_search" /\ queried > 0) => SearchRejection(call).kind = "none"
    /\ (call.op = "uniprot_fetch" /\ queried > 0) => FetchRejection(call).kind = "none"

\* A search call with a blank query, a limit of 0, an invalid format and a
\* malformed cursor was rejected for its query, the source not asked.
C17_Witness ==
    /\ call.op = "uniprot_search"
    /\ Lower(call.database) \in VALID_DATABASES
    /\ call.query # <<>> /\ Blank(call.query)
    /\ call.limit = 0
    /\ call.format = "invalid"
    /\ call.cursor = Some(Lit(<<"A">>))
    /\ ret = Raise("ValueError", <<"Query string cannot be empty">>)
    /\ queried = 0

\* C18: The search path supplies no total to the page assembler: the
\* envelope of a search call has no total, its keys are results and
\* possibly nextCursor, and it has nextCursor if and only if exactly limit
\* records were collected.
C18_SearchWithoutTotal ==
    SearchReturned =>
        LET env == Envelope(ret.value)
        IN /\ "total" \notin DOMAIN env
           /\ DOMAIN env \subseteq {"results", "nextCursor"}
           /\ env.results = results
           /\ "nextCursor" \in DOMAIN env <=> Len(results) = call.limit

\* A search call collected the last two of four records with limit 2: the
\* envelope has no total and carries a nextCursor, although nothing follows.
C18_Witness ==
    /\ SearchReturned
    /\ Len(source) = 4
    /\ PyInt(offset) = 2
    /\ call.limit = 2
    /\ "total" \notin DOMAIN Envelope(ret.value)
    /\ "nextCursor" \in DOMAIN Envelope(ret.value)

====
